---- MODULE Spec2Model ----
(***************************************************************************)
(* Model of the two notebooks of the repository (errorcorrection.ipynb     *)
(* holds both: the phase-flip error-correction notebook and the Grover     *)
(* notebook).  Each notebook is a straight-line script run statement by    *)
(* statement in its own kernel; the two kernels are independent and their  *)
(* steps interleave freely.                                                *)
(*                                                                         *)
(* A circuit is an object of the kernel's heap (a sequence of circuits,    *)
(* addressed by position); the Python names circuit, job, counts hold      *)
(* references or values.  A quantum state is kept exactly: amp[i] is an    *)
(* integer and the amplitude of basis state i is amp[i] / sqrt(2)^hc, so   *)
(* the probability of i is amp[i]^2 / 2^hc.  Bit k of i is qubit k.        *)
(***************************************************************************)
EXTENDS Integers, Sequences, FiniteSets, TLC

VARIABLES
    notebook,     \* error correction: the gate statements of each run's cells
    ecpc,         \* error correction: the cell group the kernel is at
    run,          \* error correction: number of circuits allocated so far
    idx,          \* error correction: next gate statement of the run
    circuits,     \* error correction: circuit objects of the kernel
    circuit,      \* error correction: the object the name `circuit` refers to
    jobs,         \* jobs the simulator backend received, in order
    counts,       \* error correction: value of the name `counts`
    printed,      \* error correction: what print(counts) has written
    gpc,          \* Grover: the cell group the kernel is at
    gidx,         \* Grover: next gate statement
    gcircuits,    \* Grover: circuit objects of the kernel
    grover_circuit,             \* Grover: object the name `circuit` refers to
    transpiled_grover_circuit,  \* Grover: object returned by transpile
    gjob,         \* Grover: the job on the device
    answer        \* Grover: value of the name `answer`

ecvars == <<notebook, ecpc, run, idx, circuits, circuit, jobs, counts, printed>>
gvars == <<gpc, gidx, gcircuits, grover_circuit, transpiled_grover_circuit,
           gjob, answer>>
vars == <<notebook, ecpc, run, idx, circuits, circuit, jobs, counts, printed,
          gpc, gidx, gcircuits, grover_circuit, transpiled_grover_circuit,
          gjob, answer>>

Shots == 1000

(***************************************************************************)
(* Gate records and their action on a state.                               *)
(***************************************************************************)
Gate(op, qubits) == [op |-> op, qubits |-> qubits, clbits |-> <<>>]

Measure(qubit, clbit) ==
    [op |-> "measure", qubits |-> <<qubit>>, clbits |-> <<clbit>>]

Pow2(n) == IF n = 0 THEN 1 ELSE 2 ^ n

Bit(i, k) == (i \div Pow2(k)) % 2

Flip(i, k) == IF Bit(i, k) = 0 THEN i + Pow2(k) ELSE i - Pow2(k)

ZeroState(nq) ==
    [amp |-> [i \in 0..(Pow2(nq) - 1) |-> IF i = 0 THEN 1 ELSE 0], hc |-> 0]


\* X that leaves the state alone.
ApplyX_Identity(psi, t) == psi

ApplyX(psi, t) ==
    [psi EXCEPT !.amp = [i \in DOMAIN psi.amp |-> psi.amp[Flip(i, t)]]]

ApplyZ(psi, t) ==
    [psi EXCEPT !.amp = [i \in DOMAIN psi.amp |->
        IF Bit(i, t) = 1 THEN 0 - psi.amp[i] ELSE psi.amp[i]]]

ApplyH(psi, t) ==
    [amp |-> [i \in DOMAIN psi.amp |->
                IF Bit(i, t) = 0
                THEN psi.amp[i] + psi.amp[Flip(i, t)]
                ELSE psi.amp[Flip(i, t)] - psi.amp[i]],
     hc |-> psi.hc + 1]

ApplyCX(psi, ctl, t) ==
    [psi EXCEPT !.amp = [i \in DOMAIN psi.amp |->
        IF Bit(i, ctl) = 1 THEN psi.amp[Flip(i, t)] ELSE psi.amp[i]]]


\* CZ that acts as CX.
ApplyCZ_AsCX(psi, ctl, t) ==
    [psi EXCEPT !.amp = [i \in DOMAIN psi.amp |->
        IF Bit(i, ctl) = 1 THEN psi.amp[Flip(i, t)] ELSE psi.amp[i]]]

ApplyCZ(psi, ctl, t) ==
    [psi EXCEPT !.amp = [i \in DOMAIN psi.amp |->
        IF Bit(i, ctl) = 1 /\ Bit(i, t) = 1 THEN 0 - psi.amp[i] ELSE psi.amp[i]]]


\* Toffoli that never fires.
ApplyCCX_Identity(psi, c1, c2, t) == psi


\* Toffoli that fires when either control is 1.
ApplyCCX_EitherControl(psi, c1, c2, t) ==
    [psi EXCEPT !.amp = [i \in DOMAIN psi.amp |->
        IF Bit(i, c1) = 1 \/ Bit(i, c2) = 1
        THEN psi.amp[Flip(i, t)] ELSE psi.amp[i]]]

ApplyCCX(psi, c1, c2, t) ==
    [psi EXCEPT !.amp = [i \in DOMAIN psi.amp |->
        IF Bit(i, c1) = 1 /\ Bit(i, c2) = 1
        THEN psi.amp[Flip(i, t)] ELSE psi.amp[i]]]

\* A measurement record leaves the pre-measurement state in place: the
\* outcome distribution is read from the state at the record (Distribution).
ApplyRecord(psi, rec) ==
    CASE rec.op = "x"   -> ApplyX(psi, rec.qubits[1])
      [] rec.op = "z"   -> ApplyZ(psi, rec.qubits[1])
      [] rec.op = "h"   -> ApplyH(psi, rec.qubits[1])
      [] rec.op = "cx"  -> ApplyCX(psi, rec.qubits[1], rec.qubits[2])
      [] rec.op = "cz"  -> ApplyCZ(psi, rec.qubits[1], rec.qubits[2])
      [] rec.op = "ccx" -> ApplyCCX(psi, rec.qubits[1], rec.qubits[2],
                                    rec.qubits[3])
      [] OTHER          -> psi

RECURSIVE Simulate(_, _, _)
\* State after the first k records of data, from the all-zero state.
Simulate(nq, data, k) ==
    IF k = 0 THEN ZeroState(nq)
    ELSE ApplyRecord(Simulate(nq, data, k - 1), data[k])

RECURSIVE SumSq(_, _)
SumSq(amp, S) ==
    IF S = {} THEN 0
    ELSE LET i == CHOOSE j \in S : TRUE
         IN amp[i] * amp[i] + SumSq(amp, S \ {i})

\* Numerator of the probability that qubit t reads v (denominator 2^hc).
ProbNum(psi, t, v) ==
    SumSq(psi.amp, {i \in DOMAIN psi.amp : Bit(i, t) = v})

\* Positions of the records that measure into classical bit 0.
MeasureAt(data) ==
    {k \in 1..Len(data) : data[k].op = "measure" /\ data[k].clbits = <<0>>}

\* Values of the one classical bit that have non-zero probability.  A
\* classical bit no record writes reads 0.
Support(qc) ==
    IF MeasureAt(qc.data) = {} THEN {0}
    ELSE LET k == CHOOSE m \in MeasureAt(qc.data) :
                      \A n \in MeasureAt(qc.data) : n <= m
             psi == Simulate(qc.nq, qc.data, k)
             t == qc.data[k].qubits[1]
         IN {v \in {0, 1} : ProbNum(psi, t, v) > 0}

\* The histograms get_counts can return for Shots noiseless trials: only
\* values of non-zero probability occur, and a value that did not occur has
\* no key.
Sample(qc) ==
    {("0" :> Shots) : v \in Support(qc) \cap {0}}
    \cup {("1" :> Shots) : v \in Support(qc) \cap {1}}
    \cup {("0" :> n) @@ ("1" :> (Shots - n)) :
            n \in (IF Support(qc) = {0, 1} THEN 1..(Shots - 1) ELSE {})}

(***************************************************************************)
(* The error-correction notebook.                                          *)
(***************************************************************************)

\* The Toffoli written before the two decoding CNOTs.
ErrorCorrection_Reordered(flip, fault) ==
    (IF flip THEN <<Gate("x", <<0>>)>> ELSE <<>>)
    \o <<Gate("cx", <<0, 1>>), Gate("cx", <<0, 2>>),
         Gate("h", <<0>>), Gate("h", <<1>>), Gate("h", <<2>>)>>
    \o [k \in 1..Len(fault) |-> Gate("z", <<fault[k]>>)]
    \o <<Gate("h", <<0>>), Gate("h", <<1>>), Gate("h", <<2>>),
         Gate("ccx", <<2, 1, 0>>),
         Gate("cx", <<0, 1>>), Gate("cx", <<0, 2>>),
         Measure(0, 0)>>

\* One Hadamard of the first basis change written twice.
ErrorCorrection_ExtraGate(flip, fault) ==
    (IF flip THEN <<Gate("x", <<0>>)>> ELSE <<>>)
    \o <<Gate("cx", <<0, 1>>), Gate("cx", <<0, 2>>),
         Gate("h", <<0>>), Gate("h", <<1>>), Gate("h", <<2>>),
         Gate("h", <<2>>)>>
    \o [k \in 1..Len(fault) |-> Gate("z", <<fault[k]>>)]
    \o <<Gate("h", <<0>>), Gate("h", <<1>>), Gate("h", <<2>>),
         Gate("cx", <<0, 1>>), Gate("cx", <<0, 2>>),
         Gate("ccx", <<2, 1, 0>>),
         Measure(0, 0)>>

\* The Toffoli written with the same ancilla as both controls.
ErrorCorrection_SameControl(flip, fault) ==
    (IF flip THEN <<Gate("x", <<0>>)>> ELSE <<>>)
    \o <<Gate("cx", <<0, 1>>), Gate("cx", <<0, 2>>),
         Gate("h", <<0>>), Gate("h", <<1>>), Gate("h", <<2>>)>>
    \o [k \in 1..Len(fault) |-> Gate("z", <<fault[k]>>)]
    \o <<Gate("h", <<0>>), Gate("h", <<1>>), Gate("h", <<2>>),
         Gate("cx", <<0, 1>>), Gate("cx", <<0, 2>>),
         Gate("ccx", <<1, 1, 0>>),
         Measure(0, 0)>>

\* The gate statements of one run: flip is the X of the second run, fault
\* the qubits the fault cell applies Z to.
ErrorCorrection(flip, fault) ==
    (IF flip THEN <<Gate("x", <<0>>)>> ELSE <<>>)
    \o <<Gate("cx", <<0, 1>>), Gate("cx", <<0, 2>>),
         Gate("h", <<0>>), Gate("h", <<1>>), Gate("h", <<2>>)>>
    \o [k \in 1..Len(fault) |-> Gate("z", <<fault[k]>>)]
    \o <<Gate("h", <<0>>), Gate("h", <<1>>), Gate("h", <<2>>),
         Gate("cx", <<0, 1>>), Gate("cx", <<0, 2>>),
         Gate("ccx", <<2, 1, 0>>),
         Measure(0, 0)>>

Notebook == <<ErrorCorrection(FALSE, <<0>>), ErrorCorrection(TRUE, <<0>>)>>

ECInit ==
    /\ ecpc = "alloc"
    /\ run = 0
    /\ idx = 1
    /\ circuits = <<>>
    /\ circuit = 0
    /\ jobs = <<>>
    /\ counts = <<>>
    /\ printed = <<>>


\* The second run keeps building on the circuit of the first.
ECAlloc_Reuse ==
    /\ ecpc = "alloc"
    /\ run' = run + 1
    /\ circuits' = IF run = 0
                   THEN Append(circuits, [nq |-> 3, nc |-> 1, data |-> <<>>])
                   ELSE circuits
    /\ circuit' = 1
    /\ idx' = 1
    /\ ecpc' = "build"
    /\ UNCHANGED <<notebook, jobs, counts, printed>>
    /\ UNCHANGED gvars

\* q = QuantumRegister(3,'q'); c = ClassicalRegister(1,'c');
\* circuit = QuantumCircuit(q,c)
ECAlloc ==
    /\ ecpc = "alloc"
    /\ run' = run + 1
    /\ circuits' = Append(circuits, [nq |-> 3, nc |-> 1, data |-> <<>>])
    /\ circuit' = Len(circuits) + 1
    /\ idx' = 1
    /\ ecpc' = "build"
    /\ UNCHANGED <<notebook, jobs, counts, printed>>
    /\ UNCHANGED gvars

\* circuit.<gate>(...) / circuit.measure(...): one record at the end.
ECAppend ==
    /\ ecpc = "build"
    /\ idx <= Len(notebook[run])
    /\ circuits' = [circuits EXCEPT
                      ![circuit].data = Append(@, notebook[run][idx])]
    /\ idx' = idx + 1
    /\ ecpc' = IF idx = Len(notebook[run]) THEN "execute" ELSE "build"
    /\ UNCHANGED <<notebook, run, circuit, jobs, counts, printed>>
    /\ UNCHANGED gvars

\* job = execute(circuit, backend, shots=1000): the backend accepts the job.
ECExecute ==
    /\ ecpc = "execute"
    /\ jobs' = Append(jobs, [ref |-> circuit, qobj |-> circuits[circuit],
                             status |-> "QUEUED"])
    /\ ecpc' = "monitor"
    /\ UNCHANGED <<notebook, run, idx, circuits, circuit, counts, printed>>
    /\ UNCHANGED gvars

\* execute raises (backend unavailable): the exception ends the notebook run.
ECExecuteFail ==
    /\ ecpc = "execute"
    /\ ecpc' = "error"
    /\ UNCHANGED <<notebook, run, idx, circuits, circuit, jobs, counts, printed>>
    /\ UNCHANGED gvars

\* job_monitor(job): blocks until the job reached a final status.
ECJobMonitor ==
    /\ ecpc = "monitor"
    /\ \E s \in {"DONE", "ERROR"} :
          jobs' = [jobs EXCEPT ![Len(jobs)].status = s]
    /\ ecpc' = "result"
    /\ UNCHANGED <<notebook, run, idx, circuits, circuit, counts, printed>>
    /\ UNCHANGED gvars

\* counts = job.result().get_counts()
ECResult ==
    /\ ecpc = "result"
    /\ jobs[Len(jobs)].status = "DONE"
    /\ counts' \in Sample(jobs[Len(jobs)].qobj)
    /\ ecpc' = "print"
    /\ UNCHANGED <<notebook, run, idx, circuits, circuit, jobs, printed>>
    /\ UNCHANGED gvars


\* A failed job is submitted again.
ECResultFail_Resubmit ==
    /\ ecpc = "result"
    /\ jobs[Len(jobs)].status = "ERROR"
    /\ ecpc' = "execute"
    /\ UNCHANGED <<notebook, run, idx, circuits, circuit, jobs, counts, printed>>
    /\ UNCHANGED gvars

\* job.result() raises for a failed job.
ECResultFail ==
    /\ ecpc = "result"
    /\ jobs[Len(jobs)].status = "ERROR"
    /\ ecpc' = "error"
    /\ UNCHANGED <<notebook, run, idx, circuits, circuit, jobs, counts, printed>>
    /\ UNCHANGED gvars

\* print(counts); the next cell, if any, starts the second run.
ECPrint ==
    /\ ecpc = "print"
    /\ printed' = Append(printed, counts)
    /\ ecpc' = IF run < Len(notebook) THEN "alloc" ELSE "done"
    /\ UNCHANGED <<notebook, run, idx, circuits, circuit, jobs, counts>>
    /\ UNCHANGED gvars

(***************************************************************************)
(* The Grover notebook.                                                    *)
(***************************************************************************)

\* The circuit closed with a measurement of both qubits.
GroverCells_Measured ==
    << <<Gate("h", <<0>>)>>, <<Gate("h", <<1>>)>>,
       <<Gate("cz", <<0, 1>>)>>,
       <<Gate("h", <<0>>), Gate("h", <<1>>)>>,
       <<Gate("z", <<0>>), Gate("z", <<1>>)>>,
       <<Gate("cz", <<0, 1>>)>>,
       <<Gate("h", <<0>>), Gate("h", <<1>>)>>,
       <<Measure(0, 0), Measure(1, 1)>> >>

\* Diffusion without its Z gates.
GroverCells_NoZ ==
    << <<Gate("h", <<0>>)>>, <<Gate("h", <<1>>)>>,
       <<Gate("cz", <<0, 1>>)>>,
       <<Gate("h", <<0>>), Gate("h", <<1>>)>>,
       <<Gate("cz", <<0, 1>>)>>,
       <<Gate("h", <<0>>), Gate("h", <<1>>)>> >>

\* The statements that append to the circuit, in order; a statement given a
\* list of qubits appends one record per qubit.
GroverCells ==
    << <<Gate("h", <<0>>)>>, <<Gate("h", <<1>>)>>,
       <<Gate("cz", <<0, 1>>)>>,
       <<Gate("h", <<0>>), Gate("h", <<1>>)>>,
       <<Gate("z", <<0>>), Gate("z", <<1>>)>>,
       <<Gate("cz", <<0, 1>>)>>,
       <<Gate("h", <<0>>), Gate("h", <<1>>)>> >>

GInit ==
    /\ gpc = "alloc"
    /\ gidx = 1
    /\ gcircuits = <<>>
    /\ grover_circuit = 0
    /\ transpiled_grover_circuit = 0
    /\ gjob = [ref |-> 0, qobj |-> <<>>, status |-> "NONE"]
    /\ answer = "none"

\* number_of_qubits=2; circuit = QuantumCircuit(number_of_qubits)
GAlloc ==
    /\ gpc = "alloc"
    /\ gcircuits' = Append(gcircuits, [nq |-> 2, nc |-> 0, data |-> <<>>])
    /\ grover_circuit' = Len(gcircuits) + 1
    /\ gidx' = 1
    /\ gpc' = "build"
    /\ UNCHANGED <<transpiled_grover_circuit, gjob, answer>>
    /\ UNCHANGED ecvars

\* circ.h(q) in state_prep, circuit.cz(0,1), circuit.h([0,1]), circuit.z([0,1])
GAppend ==
    /\ gpc = "build"
    /\ gidx <= Len(GroverCells)
    /\ gcircuits' = [gcircuits EXCEPT
                       ![grover_circuit].data = @ \o GroverCells[gidx]]
    /\ gidx' = gidx + 1
    /\ gpc' = IF gidx = Len(GroverCells) THEN "transpile" ELSE "build"
    /\ UNCHANGED <<grover_circuit, transpiled_grover_circuit, gjob, answer>>
    /\ UNCHANGED ecvars

\* transpiled_grover_circuit = transpile(circuit, device, optimization_level=3)
\* returns a new circuit object; the rewriting to the device's gates keeps
\* the unitary, and the copy is kept here with the records of the original.
GTranspile ==
    /\ gpc = "transpile"
    /\ gcircuits' = Append(gcircuits, gcircuits[grover_circuit])
    /\ transpiled_grover_circuit' = Len(gcircuits) + 1
    /\ gpc' = "run"
    /\ UNCHANGED <<gidx, grover_circuit, gjob, answer>>
    /\ UNCHANGED ecvars

\* job = device.run(transpiled_grover_circuit)
GRun ==
    /\ gpc = "run"
    /\ gjob' = [ref |-> transpiled_grover_circuit,
                qobj |-> gcircuits[transpiled_grover_circuit],
                status |-> "QUEUED"]
    /\ gpc' = "monitor"
    /\ UNCHANGED <<gidx, gcircuits, grover_circuit, transpiled_grover_circuit,
                   answer>>
    /\ UNCHANGED ecvars

\* device.run raises.
GRunFail ==
    /\ gpc = "run"
    /\ gpc' = "error"
    /\ UNCHANGED <<gidx, gcircuits, grover_circuit, transpiled_grover_circuit,
                   gjob, answer>>
    /\ UNCHANGED ecvars

\* job_monitor(job, interval=2)
GJobMonitor ==
    /\ gpc = "monitor"
    /\ \E s \in {"DONE", "ERROR"} : gjob' = [gjob EXCEPT !.status = s]
    /\ gpc' = "result"
    /\ UNCHANGED <<gidx, gcircuits, grover_circuit, transpiled_grover_circuit,
                   answer>>
    /\ UNCHANGED ecvars

\* results = job.result()
GResult ==
    /\ gpc = "result"
    /\ gjob.status = "DONE"
    /\ gpc' = "get_counts"
    /\ UNCHANGED <<gidx, gcircuits, grover_circuit, transpiled_grover_circuit,
                   gjob, answer>>
    /\ UNCHANGED ecvars

GResultFail ==
    /\ gpc = "result"
    /\ gjob.status = "ERROR"
    /\ gpc' = "error"
    /\ UNCHANGED <<gidx, gcircuits, grover_circuit, transpiled_grover_circuit,
                   gjob, answer>>
    /\ UNCHANGED ecvars

\* answer = results.get_counts(circuit); plot_histogram(answer).  A histogram
\* is built from the classical bits the executed circuit measured into; with
\* none, get_counts raises.
GGetCounts ==
    /\ gpc = "get_counts"
    /\ IF \E k \in 1..Len(gjob.qobj.data) : gjob.qobj.data[k].op = "measure"
       THEN answer' = "histogram" /\ gpc' = "done"
       ELSE answer' = answer /\ gpc' = "error"
    /\ UNCHANGED <<gidx, gcircuits, grover_circuit, transpiled_grover_circuit,
                   gjob>>
    /\ UNCHANGED ecvars

(***************************************************************************)
(* Specifications.                                                         *)
(***************************************************************************)
Init == notebook = Notebook /\ ECInit /\ GInit

Next ==
    \/ ECAlloc \/ ECAppend \/ ECExecute \/ ECExecuteFail \/ ECJobMonitor
    \/ ECResult \/ ECResultFail \/ ECPrint
    \/ GAlloc \/ GAppend \/ GTranspile \/ GRun \/ GRunFail \/ GJobMonitor
    \/ GResult \/ GResultFail \/ GGetCounts

Spec == Init /\ [][Next]_vars

\* The fault cell edited: no fault, or one Z on any one qubit.
Faults == {<<>>, <<0>>, <<1>>, <<2>>}

InitFault ==
    /\ notebook \in {<<ErrorCorrection(FALSE, f), ErrorCorrection(TRUE, f)>> :
                       f \in Faults}
    /\ ECInit
    /\ GInit

SpecFault == InitFault /\ [][Next]_vars

(***************************************************************************)
(* Properties.                                                             *)
(***************************************************************************)

\* C1: the first run (all qubits |0>, the notebook's gate list, noiseless
\* simulator) prints the histogram {'0': Shots}: the classical bit is 0 in
\* every trial and there is no '1' key.
C1_ZeroRunAllZero ==
    Len(printed) >= 1 => printed[1] = ("0" :> Shots)

C1_Witness ==
    /\ Len(printed) >= 1
    /\ jobs[1].status = "DONE"
    /\ jobs[1].qobj.data[1].op = "cx"
    /\ jobs[1].qobj.data[Len(jobs[1].qobj.data)].op = "measure"

\* C2: the second run (X on qubit 0 first, then the same gate list) prints
\* the histogram {'1': Shots}: the classical bit is 1 in every trial and
\* there is no '0' key.
C2_FlippedRunAllOne ==
    Len(printed) >= 2 => printed[2] = ("1" :> Shots)

C2_Witness ==
    /\ Len(printed) = 2
    /\ jobs[2].status = "DONE"
    /\ jobs[2].qobj.data[1] = Gate("x", <<0>>)
    /\ jobs[2].qobj.data[Len(jobs[2].qobj.data)].op = "measure"

C4_GateOrder ==
    LET one(op, t) == [op |-> op, controls |-> {}, target |-> t,
                       clbits |-> <<>>]
        ctl(op, cs, t) == [op |-> op, controls |-> cs, target |-> t,
                           clbits |-> <<>>]
        shape(rec) == [op |-> rec.op,
                       controls |-> {rec.qubits[k] :
                                       k \in 1..(Len(rec.qubits) - 1)},
                       target |-> rec.qubits[Len(rec.qubits)],
                       clbits |-> rec.clbits]
        expected == <<ctl("cx", {0}, 1), ctl("cx", {0}, 2),
                      one("h", 0), one("h", 1), one("h", 2),
                      one("z", 0),
                      one("h", 0), one("h", 1), one("h", 2),
                      ctl("cx", {0}, 1), ctl("cx", {0}, 2),
                      ctl("ccx", {1, 2}, 0),
                      [op |-> "measure", controls |-> {}, target |-> 0,
                       clbits |-> <<0>>]>>
    IN \A j \in 1..Len(jobs) :
          [k \in 1..Len(jobs[j].qobj.data) |-> shape(jobs[j].qobj.data[k])]
          = IF j = 1 THEN expected ELSE <<one("x", 0)>> \o expected

C4_Witness ==
    /\ Len(jobs) = 2
    /\ Len(jobs[1].qobj.data) = 13
    /\ Len(jobs[2].qobj.data) = 14

\* C5: on the uniform superposition left by state_prep the oracle negates the
\* amplitude of |11> and of no other basis state, and the four outcome
\* probabilities are 1/4 each right after it.
C5_OracleMarksAllOnes ==
    (gpc # "alloc" /\ Len(gcircuits[grover_circuit].data) >= 3) =>
        LET qc == gcircuits[grover_circuit]
            pre == Simulate(qc.nq, qc.data, 2)
            post == Simulate(qc.nq, qc.data, 3)
        IN /\ qc.data[3].op = "cz"
           /\ \A i \in 0..3 : pre.amp[i] = pre.amp[0] /\ pre.amp[i] # 0
           /\ post.amp[3] = 0 - pre.amp[3]
           /\ \A i \in 0..2 : post.amp[i] = pre.amp[i]
           /\ post.hc = pre.hc
           /\ \A i \in 0..3 : 4 * post.amp[i] * post.amp[i] = Pow2(post.hc)

C5_Witness ==
    /\ gpc = "build"
    /\ Len(gcircuits[grover_circuit].data) = 3
    /\ gcircuits[grover_circuit].data[3] = Gate("cz", <<0, 1>>)

\* C6 as stated: no circuit of either notebook ever holds more than 10 gate
\* records (measurements not counted).
C6_AtMostTenGates ==
    /\ \A k \in 1..Len(circuits) :
          Cardinality({n \in 1..Len(circuits[k].data) :
                         circuits[k].data[n].op # "measure"}) <= 10
    /\ \A k \in 1..Len(gcircuits) :
          Cardinality({n \in 1..Len(gcircuits[k].data) :
                         gcircuits[k].data[n].op # "measure"}) <= 10

\* C6 amended: the gate sequences are fixed and small: the Grover circuit
\* never holds more than 10 gate records, the first error-correction circuit
\* never more than 12 gates and the pre-flipped one never more than 13, each
\* followed by one measurement record (13 and 14 records in all).
C6_GateCountBounds ==
    /\ \A k \in 1..Len(circuits) :
          LET data == circuits[k].data
              gates == {n \in 1..Len(data) : data[n].op # "measure"}
          IN /\ Cardinality(gates) <= 11 + k
             /\ Len(data) <= Cardinality(gates) + 1
    /\ \A k \in 1..Len(gcircuits) : Len(gcircuits[k].data) <= 10

C6_Witness ==
    /\ Len(jobs) = 2
    /\ Len(circuits[1].data) = 13
    /\ Len(circuits[2].data) = 14
    /\ gpc = "run"
    /\ Len(gcircuits[grover_circuit].data) = 10

\* C7: in every circuit of either notebook every record names qubits inside
\* the circuit's quantum register (0..2, 0..1 for Grover) and classical bits
\* inside its classical register (only 0, error correction only), and no
\* record names a qubit twice.
C7_IndexBounds ==
    LET ok(qc) ==
            \A n \in 1..Len(qc.data) :
                LET rec == qc.data[n]
                IN /\ \A k \in 1..Len(rec.qubits) :
                          rec.qubits[k] \in 0..(qc.nq - 1)
                   /\ \A k \in 1..Len(rec.clbits) :
                          rec.clbits[k] \in 0..(qc.nc - 1)
                   /\ \A k, m \in 1..Len(rec.qubits) :
                          k # m => rec.qubits[k] # rec.qubits[m]
    IN /\ \A k \in 1..Len(circuits) :
            circuits[k].nq = 3 /\ circuits[k].nc = 1 /\ ok(circuits[k])
       /\ \A k \in 1..Len(gcircuits) :
            /\ gcircuits[k].nq = 2 /\ gcircuits[k].nc = 0 /\ ok(gcircuits[k])
            /\ \A n \in 1..Len(gcircuits[k].data) :
                  gcircuits[k].data[n].clbits = <<>>

C7_Witness ==
    /\ ecpc = "execute"
    /\ run = 2
    /\ circuits[circuit].data[Len(circuits[circuit].data)] = Measure(0, 0)
    /\ circuits[circuit].data[Len(circuits[circuit].data) - 1]
         = Gate("ccx", <<2, 1, 0>>)
    /\ gpc = "transpile"
    /\ Len(gcircuits[grover_circuit].data) = 10

\* C8: a circuit object only ever grows at its end (its old records stay a
\* prefix of the new ones), a circuit that was submitted for execution never
\* changes again, the second error-correction run starts on a newly
\* allocated empty circuit, and the Grover job runs a transpiled copy while
\* the original stays as built.
C8_AppendOnlyExecuteLast ==
    [][LET prefix(a, b) ==
              /\ Len(a) <= Len(b)
              /\ \A n \in 1..Len(a) : a[n] = b[n]
           submitted == {jobs[j].ref : j \in 1..Len(jobs)}
           gsubmitted == IF gjob.status = "NONE" THEN {} ELSE {gjob.ref}
       IN /\ \A k \in 1..Len(circuits) :
                /\ k <= Len(circuits')
                /\ circuits'[k].nq = circuits[k].nq
                /\ circuits'[k].nc = circuits[k].nc
                /\ prefix(circuits[k].data, circuits'[k].data)
                /\ Len(circuits'[k].data) <= Len(circuits[k].data) + 1
                /\ k \in submitted => circuits'[k] = circuits[k]
          /\ \A k \in 1..Len(gcircuits) :
                /\ k <= Len(gcircuits')
                /\ gcircuits'[k].nq = gcircuits[k].nq
                /\ gcircuits'[k].nc = gcircuits[k].nc
                /\ prefix(gcircuits[k].data, gcircuits'[k].data)
                /\ k \in gsubmitted => gcircuits'[k] = gcircuits[k]
          /\ run' # run =>
                /\ circuit' \notin 1..Len(circuits)
                /\ circuit' \notin submitted
                /\ circuits'[circuit'].data = <<>>
          /\ gjob'.status # "NONE" =>
                /\ gjob'.ref # grover_circuit'
                /\ gjob'.ref = transpiled_grover_circuit'
                /\ gcircuits'[grover_circuit'] = gcircuits[grover_circuit]
      ]_vars

C8_Witness ==
    /\ run = 2
    /\ ecpc = "done"
    /\ jobs[1].ref = 1
    /\ jobs[2].ref = 2
    /\ circuits[1] = jobs[1].qobj
    /\ circuits[2] = jobs[2].qobj
    /\ gjob.status = "DONE"
    /\ gjob.ref = 2
    /\ grover_circuit = 1
    /\ Len(gcircuits[1].data) = 10

\* C9: a failed backend call ends the notebook run: after an error no name of
\* that notebook changes again; a job that failed is followed only by the
\* error, never by another submission; each run submits at most one job;
\* and a run that ended in an error assigned and printed no histogram.
C9_FailureIsTerminal ==
    [][/\ ecpc = "error" => UNCHANGED ecvars
       /\ gpc = "error" => UNCHANGED gvars
       /\ (ecpc = "execute" /\ ecpc' # "execute") =>
             \/ ecpc' = "monitor" /\ Len(jobs') = Len(jobs) + 1
             \/ ecpc' = "error" /\ UNCHANGED <<jobs, counts, printed, circuits>>
       /\ (ecpc = "result" /\ jobs[Len(jobs)].status = "ERROR"
             /\ ecpc' # "result") =>
             ecpc' = "error" /\ UNCHANGED <<jobs, counts, printed, circuits>>
       /\ Len(jobs') <= run'
       /\ ecpc' = "error" =>
             /\ Len(printed') = run' - 1
             /\ counts' = IF run' = 1 THEN <<>> ELSE printed'[run' - 1]
       /\ (gpc = "run" /\ gpc' # "run") =>
             \/ gpc' = "monitor" /\ gjob'.status = "QUEUED"
             \/ gpc' = "error" /\ UNCHANGED <<gjob, answer>>
       /\ (gpc = "result" /\ gjob.status = "ERROR" /\ gpc' # "result") =>
             gpc' = "error" /\ UNCHANGED <<gjob, answer>>
       /\ gpc' = "error" => answer' = "none"
      ]_vars

C9_Witness ==
    /\ ecpc = "error"
    /\ run = 2
    /\ Len(jobs) = 2
    /\ jobs[2].status = "ERROR"
    /\ Len(printed) = 1
    /\ gpc = "error"
    /\ gjob.status = "ERROR"

\* C10: with the fault cell applying no Z or one Z to any one of the three
\* qubits, the run that prepares 0 prints {'0': Shots} and the run that
\* prepares 1 prints {'1': Shots}; just before the Toffoli the register is
\* in one basis state, the Toffoli changes qubit 0 exactly when the Z was on
\* qubit 0, and then qubits 1 and 2 are both 1 before it.
C10_SingleFaultCorrected ==
    /\ \A j \in 1..Len(printed) :
          printed[j] = ((IF j = 1 THEN "0" ELSE "1") :> Shots)
    /\ \A j \in 1..Len(jobs) :
          LET data == jobs[j].qobj.data
              t == CHOOSE n \in 1..Len(data) : data[n].op = "ccx"
              pre == Simulate(3, data, t - 1)
              post == Simulate(3, data, t)
              on(psi) == {i \in DOMAIN psi.amp : psi.amp[i] # 0}
              fault == {data[n].qubits[1] :
                          n \in {m \in 1..Len(data) : data[m].op = "z"}}
          IN /\ Cardinality(on(pre)) = 1
             /\ Cardinality(on(post)) = 1
             /\ \A a \in on(pre) : \A b \in on(post) :
                   /\ (Bit(a, 0) # Bit(b, 0)) <=> (fault = {0})
                   /\ Bit(b, 0) = j - 1
                   /\ fault = {0} => (Bit(a, 1) = 1 /\ Bit(a, 2) = 1)
                   /\ fault # {0} => (Bit(a, 1) = 0 \/ Bit(a, 2) = 0)

C10_Witness ==
    /\ notebook[1] = ErrorCorrection(FALSE, <<2>>)
    /\ notebook[2] = ErrorCorrection(TRUE, <<2>>)
    /\ Len(printed) = 2
    /\ jobs[1].status = "DONE"
    /\ jobs[2].status = "DONE"

====
